---- MODULE Spec2Model ----
(***************************************************************************)
(* State-machine model of bharat-rag's ingestion pipeline and chunk store. *)
(*                                                                         *)
(*   IngestionService.ingest      services/ingestion_service.py            *)
(*   IngestionJobRepository       services/repositories/                   *)
(*   ChunkRepository              services/repositories/                   *)
(*   SimpleChunker                services/chunking/simple_chunker.py      *)
(*   SentenceChunker              services/chunking/sentence_chunker.py    *)
(*   build_rag_prompt             services/llm/prompt_builder.py           *)
(*   LocalLLM                     services/llm/local_llm.py                *)
(*   RetrievalService.query       services/retrieval_service.py            *)
(*   answer                       api/answer.py                            *)
(*                                                                         *)
(* Text is a sequence of one-character strings.  The clock is strictly     *)
(* increasing, so two stamps on one job row are equal iff the same         *)
(* update_status call wrote them: a timestamp is modelled by the ordinal   *)
(* of the call on that row that wrote it, and 0 is None.                   *)
(* Every ingest call is a process; the calls interleave at the granularity *)
(* of the store's transactions.                                            *)
(***************************************************************************)
EXTENDS Integers, Sequences, FiniteSets, TLC

\* ------------------------------------------------------------------ bounds
MaxUnits == 2
ChunkSize == 3
Overlap == 1
MaxCalls == 3
MaxRows == 1
MaxStore == 52

\* ------------------------------------------------------- program constants
TopKMax == 50

\* ------------------------------------------------------------ value spaces
\* Two ingest calls in flight against the same store.  A job or document id
\* is a UUID the database draws; the id drawn for the call p is written p.
Procs == {1, 2}

CollIds == {"A", "B", "Z"}

NoUri == "None"

Payload(c, st, f, uri) == [collection_id |-> c, source_type |-> st, format |-> f, uri |-> uri]

\* The requests tried: one per extraction path and one per way of being invalid.
Payloads ==
  { Payload("A", "file", "pdf", "u"),   \* PDF handler
    Payload("B", "file", "txt", "u"),   \* text handler
    Payload("B", "url", "pdf", "u"),    \* no handler: whole-text fallback
    Payload("Z", "file", "pdf", "u"),
    Payload("A", "", "pdf", "u"),
    Payload("A", "file", "", "u"),
    Payload("A", "url", "txt", NoUri),
    Payload("B", "url", "txt", ""),
    Payload("B", "file", "txt", NoUri) }

\* Empty, whitespace-only, two windows, and one whose middle window is blank.
Texts == { <<>>, <<" ">>, <<"a", "b", "c", "d">>, <<"a", " ", " ", " ", " ", "b">> }

ExcMessages == {"", "boom"}

Threads == { 1, 2 }

NoTime == 0

NoDoc == 0

\* Python's str | None: None, or a string made of a message and a page list.
None == [isNone |-> TRUE, text |-> "", pages |-> <<>>]

Str(s, pages) == [isNone |-> FALSE, text |-> s, pages |-> pages]

\* Python truthiness of a str | None value.
Truthy(e) == ~e.isNone /\ ~(e.text = "" /\ e.pages = <<>>)

Min(a, b) == IF a <= b THEN a ELSE b

Max(a, b) == IF a >= b THEN a ELSE b

\* ------------------------------------------------------------ SimpleChunker
IsSpace(ch) == ch = " "

RECURSIVE LStrip(_)
LStrip(t) == IF t # <<>> /\ IsSpace(Head(t)) THEN LStrip(Tail(t)) ELSE t

RECURSIVE RStrip(_)
RStrip(t) ==
  IF t # <<>> /\ IsSpace(t[Len(t)]) THEN RStrip(SubSeq(t, 1, Len(t) - 1)) ELSE t

Strip(t) == RStrip(LStrip(t))

\* The while loop with blank windows kept.
RECURSIVE ChunkLoopKeepBlank(_, _, _, _, _)
ChunkLoopKeepBlank(t, start, idx, chunk_size, overlap) ==
  IF start >= Len(t) THEN <<>>
  ELSE LET part == Strip(SubSeq(t, start + 1, Min(start + chunk_size, Len(t))))
           step == chunk_size - overlap
       IN << [index |-> idx, text |-> part] >>
            \o ChunkLoopKeepBlank(t, start + step, idx + 1, chunk_size, overlap)

\* The while loop of SimpleChunker.chunk: start is the 0-based window start.
RECURSIVE ChunkLoop(_, _, _, _, _)
ChunkLoop(t, start, idx, chunk_size, overlap) ==
  IF start >= Len(t) THEN <<>>
  ELSE LET part == Strip(SubSeq(t, start + 1, Min(start + chunk_size, Len(t))))
           step == chunk_size - overlap
       IN IF part # <<>>
          THEN << [index |-> idx, text |-> part] >>
                 \o ChunkLoop(t, start + step, idx + 1, chunk_size, overlap)
          ELSE ChunkLoop(t, start + step, idx, chunk_size, overlap)

\* SimpleChunker(chunk_size, overlap).chunk(text).
SimpleChunkerChunk(text, chunk_size, overlap) ==
  LET t == Strip(text)
  IN IF t = <<>> THEN << [index |-> 0, text |-> <<>>] >>
     ELSE ChunkLoop(t, 0, 0, chunk_size, overlap)

\* The chunker IngestionService builds in __init__.
SimpleChunk(text) == SimpleChunkerChunk(text, ChunkSize, Overlap)

\* ---------------------------------------------------------- SentenceChunker
\* The characters [.!?] and [A-Z] of the sentence pattern.
IsPunct(ch) == ch \in { ".", "!", "?" }

IsUpper(ch) == ch \in { "A", "B" }

\* The first position at or after i that holds no whitespace.
RECURSIVE SkipSpaces(_, _)
SkipSpaces(t, i) == IF i <= Len(t) /\ IsSpace(t[i]) THEN SkipSpaces(t, i + 1) ELSE i

\* re.split(sentence_pattern, text) from position i on, the current piece
\* starting at start: a split takes the whitespace after a [.!?] when a capital
\* follows it or the string ends there, and the empty match at the end of a
\* string that ends in [.!?].
RECURSIVE ReSplit(_, _, _)
ReSplit(t, start, i) ==
  IF i > Len(t)
  THEN IF Len(t) >= 1 /\ IsPunct(t[Len(t)])
       THEN << SubSeq(t, start, Len(t)), <<>> >>
       ELSE << SubSeq(t, start, Len(t)) >>
  ELSE IF i > 1 /\ IsPunct(t[i - 1]) /\ IsSpace(t[i])
       THEN LET j == SkipSpaces(t, i)
            IN IF j > Len(t) THEN << SubSeq(t, start, i - 1), <<>> >>
               ELSE IF IsUpper(t[j]) THEN << SubSeq(t, start, i - 1) >> \o ReSplit(t, j, j)
               ELSE ReSplit(t, start, j)
       ELSE ReSplit(t, start, i + 1)

\* re.sub(r'\s+', ' ', sentence).
RECURSIVE CollapseSpaces(_)
CollapseSpaces(t) ==
  IF t = <<>> THEN <<>>
  ELSE IF IsSpace(Head(t)) THEN << " " >> \o CollapseSpaces(LStrip(t))
  ELSE << Head(t) >> \o CollapseSpaces(Tail(t))

\* _split_into_sentences.
SplitIntoSentences(text) ==
  LET sentences == ReSplit(text, 1, 1)
      stripped == SelectSeq([ i \in 1..Len(sentences) |-> Strip(sentences[i]) ],
                            LAMBDA sentence : sentence # <<>>)
      cleaned_sentences == [ i \in 1..Len(stripped) |-> CollapseSpaces(stripped[i]) ]
  IN IF cleaned_sentences = <<>> THEN << text >> ELSE cleaned_sentences

\* " ".join(parts).
RECURSIVE JoinSpace(_)
JoinSpace(parts) ==
  IF parts = <<>> THEN <<>>
  ELSE IF Len(parts) = 1 THEN parts[1]
  ELSE parts[1] \o << " " >> \o JoinSpace(Tail(parts))

\* Lines 93-99: the walk backwards over the chunk just saved, from its k-th
\* sentence down.
RECURSIVE OverlapLoop(_, _, _, _, _)
OverlapLoop(current_chunk, k, overlap_sentences, overlap_length, overlap) ==
  IF k = 0 THEN [ sentences |-> overlap_sentences, length |-> overlap_length ]
  ELSE LET s_len == Len(current_chunk[k]) + 1
       IN IF overlap_length + s_len <= overlap
          THEN OverlapLoop(current_chunk, k - 1, << current_chunk[k] >> \o overlap_sentences,
                           overlap_length + s_len, overlap)
          ELSE [ sentences |-> overlap_sentences, length |-> overlap_length ]

\* Lines 72-118: the loop over the sentences from the i-th on, and the final
\* chunk.  st holds chunks, current_chunk, current_length and chunk_idx.
RECURSIVE PackLoop(_, _, _, _, _)
PackLoop(sentences, i, st, chunk_size, overlap) ==
  IF i > Len(sentences)
  THEN IF st.current_chunk # <<>> /\ JoinSpace(st.current_chunk) # <<>>
       THEN Append(st.chunks, [index |-> st.chunk_idx, text |-> JoinSpace(st.current_chunk)])
       ELSE st.chunks
  ELSE LET sentence == Strip(sentences[i])
           sentence_length == Len(sentence) + 1
           chunk_text == JoinSpace(st.current_chunk)
           saved == IF chunk_text # <<>>
                    THEN [ st EXCEPT !.chunks = Append(@, [index |-> st.chunk_idx, text |-> chunk_text]),
                                     !.chunk_idx = @ + 1 ]
                    ELSE st
           carried == OverlapLoop(st.current_chunk, Len(st.current_chunk), <<>>, 0, overlap)
           closed == IF st.current_length + sentence_length > chunk_size /\ st.current_chunk # <<>>
                     THEN [ saved EXCEPT !.current_chunk = carried.sentences,
                                         !.current_length = carried.length ]
                     ELSE st
       IN IF sentence = <<>> THEN PackLoop(sentences, i + 1, st, chunk_size, overlap)
          ELSE PackLoop(sentences, i + 1,
                        [ closed EXCEPT !.current_chunk = Append(@, sentence),
                                        !.current_length = @ + sentence_length ],
                        chunk_size, overlap)

\* SentenceChunker(chunk_size, overlap).chunk(text).
SentenceChunkerChunk(text, chunk_size, overlap) ==
  LET t == Strip(text)
      sentences == SplitIntoSentences(t)
  IN IF t = <<>> THEN << [index |-> 0, text |-> <<>>] >>
     ELSE IF sentences = <<>> THEN << [index |-> 0, text |-> t] >>
     ELSE PackLoop(sentences, 1,
                   [ chunks |-> <<>>, current_chunk |-> <<>>, current_length |-> 0, chunk_idx |-> 0 ],
                   chunk_size, overlap)

\* ------------------------------------------------------- SimpleHashEmbedder
\* The digest is abstracted to a two-digit content hash; each digit b in 0..3
\* becomes the component (b/3)*2 - 1, kept as the integer 2b - 3.
Code(ch) == CASE ch = "a" -> 1 [] ch = "b" -> 2 [] ch = "c" -> 3 [] ch = "d" -> 5 [] OTHER -> 7

RECURSIVE Digest(_)
Digest(t) == IF t = <<>> THEN 11 ELSE (Code(Head(t)) + 3 * Digest(Tail(t))) % 16

HashEmbedOne(t) == << 2 * (Digest(t) % 4) - 3, 2 * (Digest(t) \div 4) - 3 >>

HashEmbed(texts) == [i \in 1..Len(texts) |-> HashEmbedOne(texts[i])]

\* ------------------------------------------------------------------ state
VARIABLES
  chunker,      \* a chunker instance, the text it was given and what it returned
  llm,          \* the LocalLLM instance and the threads calling generate
  collections,  \* ids of the rows of the collections table
  jobs,         \* ingestion_jobs table: job id -> row
  documents,    \* documents table: document id -> row
  chunks,       \* chunks table in insertion order
  proc,         \* one ingest call per process: its position and locals
  rag           \* the answer() call: its position, request and response

vars == << collections, jobs, documents, chunks, proc, rag, chunker, llm >>

\* Python's dict | None for the progress argument; {} has stage "".
NoProgress == [isNone |-> TRUE, stage |-> "", failed_pages |-> <<>>]

Progress(stage, failed) == [isNone |-> FALSE, stage |-> stage, failed_pages |-> failed]

\* session.add + commit of a row under a fresh primary key.
Insert(table, id, row) == [ k \in DOMAIN table \cup {id} |-> IF k = id THEN row ELSE table[k] ]

EmptyTable == [ k \in {} |-> 0 ]

Terminal == {"COMPLETED", "PARTIAL", "FAILED"}

Statuses == {"PENDING", "RUNNING", "COMPLETED", "FAILED", "PARTIAL", "CANCELED"}

\* ------------------------------------------------- IngestionJobRepository
\* create: a PENDING row with empty progress and no timestamps.
NewJob(payload) ==
  [ collection_id |-> payload.collection_id,
    document_id   |-> NoDoc,
    source_type   |-> payload.source_type,
    format        |-> payload.format,
    status        |-> "PENDING",
    progress      |-> Progress("", <<>>),
    error_summary |-> None,
    started_at    |-> NoTime,
    completed_at  |-> NoTime,
    calls         |-> 0 ]

\* update_status on a found row; datetime.now() is the ordinal of this call.
UpdateStatus(job, status, progress, error_summary) ==
  [ job EXCEPT
      !.calls         = @ + 1,
      !.status        = status,
      !.started_at    = IF status = "RUNNING" THEN job.calls + 1 ELSE @,
      !.completed_at  = IF status \in {"COMPLETED", "FAILED", "CANCELED"} THEN job.calls + 1 ELSE @,
      !.progress      = IF progress.isNone THEN @ ELSE progress,
      !.error_summary = IF Truthy(error_summary) THEN error_summary ELSE @ ]

\* ------------------------------------------------------- ingestion handlers
Handlers == << "pdf", "text", "image", "video", "website" >>

Supports(h, format, source_type) ==
  CASE h = "pdf"     -> format = "pdf" /\ source_type = "file"
    [] h = "text"    -> source_type = "text" \/ (source_type = "file" /\ format \in {"txt", "md"})
    [] h = "image"   -> format \in {"png", "jpg", "jpeg"} /\ source_type = "file"
    [] h = "video"   -> format \in {"mp4", "avi", "mov"} /\ source_type = "file"
    [] h = "website" -> format = "html" /\ source_type = "url"

NoHandler == "none"

\* _get_handler with the text handler as the default for an unsupported pair.
GetHandlerTextDefault(format, source_type) ==
  LET hits == { i \in 1..Len(Handlers) : Supports(Handlers[i], format, source_type) }
  IN IF hits = {} THEN "text"
     ELSE Handlers[CHOOSE i \in hits : \A k \in hits : i <= k]

\* _get_handler: first handler in registration order that supports the pair.
GetHandler(format, source_type) ==
  LET hits == { i \in 1..Len(Handlers) : Supports(Handlers[i], format, source_type) }
  IN IF hits = {} THEN NoHandler
     ELSE Handlers[CHOOSE i \in hits : \A k \in hits : i <= k]

\* One extracted unit: page_number 0 stands for a metadata map without the key,
\* has_error for the presence of the extraction_error key.
Unit(text, page, has_error, err) ==
  [text |-> text, page_number |-> page, has_error |-> has_error, extraction_error |-> err]

\* What PdfIngestionHandler.extract_text emits for page n: the cleaned page
\* text, or ("", {..., "extraction_error": str(e)}) when the page raised.
PdfPages(n) ==
  { Unit(t, n, FALSE, "") : t \in {<<>>, <<"a", "b", "c", "d">>} }
    \cup { Unit(<<>>, n, TRUE, m) : m \in ExcMessages }

RECURSIVE PdfExtractions(_)
PdfExtractions(n) ==
  IF n = 0 THEN { <<>> }
  ELSE LET shorter == PdfExtractions(n - 1)
       IN shorter \cup { Append(u, pg) : u \in { s \in shorter : Len(s) = n - 1 },
                                         pg \in PdfPages(n) }

\* The units a handler can return when it does not raise.
ExtractText(h) ==
  IF h = "pdf" THEN PdfExtractions(MaxUnits)
  ELSE { << Unit(t, 0, FALSE, "") >> : t \in Texts }

\* --------------------------------------- IngestionService: the unit loop
\* Line 206: "if not text and page_metadata.get('extraction_error')".
UnitFailed(u) == u.text = <<>> /\ u.has_error /\ u.extraction_error # ""

\* page_metadata.get("page_number", page_idx + 1), idx being page_idx + 1.
PageName(u, idx) == IF u.page_number # 0 THEN u.page_number ELSE idx

\* The non-empty chunks of one unit, tagged with the unit they come from.
UnitChunks(u, idx) ==
  LET cs == SimpleChunk(u.text)
      keep == { i \in 1..Len(cs) : cs[i].text # <<>> }
      F[i \in 0..Len(cs)] ==
        IF i = 0 THEN <<>>
        ELSE IF i \in keep
             THEN Append(F[i - 1], [text |-> cs[i].text, unit |-> idx, in_page |-> i - 1])
             ELSE F[i - 1]
  IN F[Len(cs)]

\* failed_pages after the loop over the first n units.
RECURSIVE FailedPages(_, _)
FailedPages(units, n) ==
  IF n = 0 THEN <<>>
  ELSE IF UnitFailed(units[n])
       THEN Append(FailedPages(units, n - 1), PageName(units[n], n))
       ELSE FailedPages(units, n - 1)

\* all_chunks after the loop over the first n units.
RECURSIVE AllChunks(_, _)
AllChunks(units, n) ==
  IF n = 0 THEN <<>>
  ELSE IF UnitFailed(units[n])
       THEN AllChunks(units, n - 1)
       ELSE AllChunks(units, n - 1) \o UnitChunks(units[n], n)

\* Number of "extracting" progress updates the loop writes (PDF pages only).
PageUpdates(units, format) ==
  IF format = "pdf" THEN Cardinality({ i \in 1..Len(units) : units[i].page_number # 0 }) ELSE 0

\* The result dict of _process_with_handler / _process_legacy_text.
Result(status, failed, summary) == [status |-> status, failed_pages |-> failed, error_summary |-> summary]

NoResult == Result("", <<>>, None)

\* ------------------------------------------------------ process-local state
NoJob == 0

\* What the uri of a request names on disk: no file, or a file and its text.
NoFile == [ is_file |-> FALSE, text |-> <<>> ]

Files == { NoFile } \cup { [ is_file |-> TRUE, text |-> t ] : t \in Texts }

IdleProc ==
  [ pc |-> "idle", payload |-> Payload("", "", "", NoUri),
    job |-> NoJob, doc |-> NoDoc, handler |-> NoHandler,
    units |-> <<>>, file |-> NoFile, loaded |-> <<>>, failed_pages |-> <<>>, all_chunks |-> <<>>, chunks |-> <<>>,
    embeddings |-> <<>>, result |-> NoResult,
    raised |-> "", exc |-> "", ret |-> "" ]

\* The prompt before build_rag_prompt has run.
NoPrompt == [ format |-> "none", context_text |-> <<>>, question |-> <<>> ]

\* No chunker built yet.
NoChunker ==
  [ pc |-> "none", kind |-> "", chunk_size |-> 0, overlap |-> 0, text |-> <<>>, out |-> <<>> ]

\* LocalLLM.__init__, lines 461-463: nothing is loaded; no thread is in generate.
NewLocalLLM ==
  [ loaded |-> FALSE, tokenizer_loads |-> 0, model_loads |-> 0, calls |-> 0,
    pc |-> [ t \in Threads |-> "idle" ] ]

\* The answer() call before it is made.
IdleAnswer ==
  [ pc |-> "idle", collection_id |-> "", question |-> <<>>, top_k |-> 0,
    results |-> <<>>, answer |-> "", citations |-> <<>>, context |-> <<>>,
    generate_calls |-> 0, max_context_tokens |-> 0, prompt |-> NoPrompt ]

Init ==
  /\ collections = {"A", "B"}
  /\ jobs = EmptyTable
  /\ documents = EmptyTable
  /\ chunks = <<>>
  /\ proc = [p \in Procs |-> IdleProc]
  /\ rag = IdleAnswer
  /\ chunker = NoChunker
  /\ llm = NewLocalLLM

\* _validate_request without the collection lookup.
ValidateRequestNoLookup(payload, colls) ==
  IF payload.source_type = "" \/ payload.format = "" THEN "Invalid ingestion payload"
  ELSE IF payload.uri = NoUri \/ payload.uri = "" THEN "uri is required for ingestion in current implementation"
  ELSE ""

\* _validate_request: the message of the ValueError it raises, "" when it passes.
ValidateRequest(payload, colls) ==
  IF payload.collection_id \notin colls THEN "collection_id not found"
  ELSE IF payload.source_type = "" \/ payload.format = "" THEN "Invalid ingestion payload"
  ELSE IF payload.uri = NoUri \/ payload.uri = "" THEN "uri is required for ingestion in current implementation"
  ELSE ""

\* ingest, lines 53-65 when validation raises: nothing is written.
IngestRejected(p, payload) ==
  /\ proc[p].pc = "idle"
  /\ ValidateRequest(payload, collections) # ""
  /\ proc' = [proc EXCEPT ![p].pc = "rejected", ![p].payload = payload,
                          ![p].raised = ValidateRequest(payload, collections)]
  /\ UNCHANGED << chunker, llm, rag, collections, jobs, documents, chunks >>

\* ingest with a job row that is born RUNNING.
IngestAcceptedRunning(p, payload) ==
  /\ proc[p].pc = "idle"
  /\ ValidateRequest(payload, collections) = ""
  /\ jobs' = Insert(jobs, p, [ NewJob(payload) EXCEPT !.status = "RUNNING" ])
  /\ proc' = [proc EXCEPT ![p].pc = "created", ![p].payload = payload, ![p].job = p]
  /\ UNCHANGED << chunker, llm, rag, collections, documents, chunks >>

\* ingest, lines 53-65 when validation passes: repo.create writes the PENDING row.
IngestAccepted(p, payload) ==
  /\ proc[p].pc = "idle"
  /\ ValidateRequest(payload, collections) = ""
  /\ jobs' = Insert(jobs, p, NewJob(payload))
  /\ proc' = [proc EXCEPT ![p].pc = "created", ![p].payload = payload, ![p].job = p]
  /\ UNCHANGED << chunker, llm, rag, collections, documents, chunks >>

\* ingest without its except branch: the exception leaves the job as it was.
FailUnrecorded(p, step, msg) ==
  /\ jobs' = jobs
  /\ proc' = [proc EXCEPT ![p].pc = "done", ![p].exc = step,
                          ![p].raised = msg, ![p].ret = jobs[proc[p].job].status]

\* The except branch of ingest: update_status(job.id, "FAILED", error_summary=str(exc)).
Fail(p, step, msg) ==
  /\ jobs' = [jobs EXCEPT ![proc[p].job] = UpdateStatus(@, "FAILED", NoProgress, Str(msg, <<>>))]
  /\ proc' = [proc EXCEPT ![p].pc = "done", ![p].exc = step,
                          ![p].raised = msg, ![p].ret = "FAILED"]

\* Line 68: update_status(job.id, "RUNNING").
Begin(p) ==
  /\ proc[p].pc = "created"
  /\ jobs' = [jobs EXCEPT ![proc[p].job] = UpdateStatus(@, "RUNNING", NoProgress, None)]
  /\ proc' = [proc EXCEPT ![p].pc = "running"]
  /\ UNCHANGED << chunker, llm, rag, collections, documents, chunks >>

\* _store_raw creating every document in collection "A".
CreateDocumentFixedCollection(p) ==
  /\ proc[p].pc = "running"
  /\ documents' = Insert(documents, p, [ collection_id |-> "A",
                                         source_type |-> proc[p].payload.source_type,
                                         format |-> proc[p].payload.format,
                                         uri |-> proc[p].payload.uri ])
  /\ proc' = [proc EXCEPT ![p].pc = "doc", ![p].doc = p]
  /\ UNCHANGED << chunker, llm, rag, collections, jobs, chunks >>

\* _store_raw, lines 123-131: document_repo.create.
CreateDocument(p) ==
  /\ proc[p].pc = "running"
  /\ documents' = Insert(documents, p, [ collection_id |-> proc[p].payload.collection_id,
                                         source_type |-> proc[p].payload.source_type,
                                         format |-> proc[p].payload.format,
                                         uri |-> proc[p].payload.uri ])
  /\ proc' = [proc EXCEPT ![p].pc = "doc", ![p].doc = p]
  /\ UNCHANGED << chunker, llm, rag, collections, jobs, chunks >>

CreateDocumentRaises(p, msg) ==
  /\ proc[p].pc = "running"
  /\ Fail(p, "document", msg)
  /\ UNCHANGED << chunker, llm, rag, collections, documents, chunks >>

\* _store_raw, lines 133-137: progress document_created, then handler lookup.
DocumentCreated(p) ==
  /\ proc[p].pc = "doc"
  /\ jobs' = [jobs EXCEPT ![proc[p].job] =
                UpdateStatus(@, "RUNNING", Progress("document_created", <<>>), None)]
  /\ proc' = [proc EXCEPT ![p].pc = "extract",
                          ![p].handler = GetHandler(proc[p].payload.format, proc[p].payload.source_type)]
  /\ UNCHANGED << chunker, llm, rag, collections, documents, chunks >>

\* The early return reporting every chunk-less extraction as partial.
EmptyResultAsPartial(failed) ==
  Result("PARTIAL", failed, Str("All pages failed extraction. Failed pages: ", failed))

\* Lines 228-243: the result when no chunk survived the unit loop.
EmptyResult(failed) ==
  IF failed # <<>>
  THEN Result("PARTIAL", failed, Str("All pages failed extraction. Failed pages: ", failed))
  ELSE Result("COMPLETED", <<>>, None)

\* The n "extracting" updates of the unit loop, lines 185-196, applied in turn.
RECURSIVE PageProgress(_, _)
PageProgress(job, n) ==
  IF n = 0 THEN job
  ELSE UpdateStatus(PageProgress(job, n - 1), "RUNNING", Progress("extracting", <<>>), None)

\* _process_with_handler, lines 166-249: extraction, the unit loop, and either
\* the early return without chunks or the "chunked" progress update.
HandlerExtract(p, units) ==
  /\ proc[p].pc = "extract"
  /\ proc[p].handler # NoHandler
  /\ units \in ExtractText(proc[p].handler)
  /\ LET n      == PageUpdates(units, proc[p].payload.format)
         failed == FailedPages(units, Len(units))
         all    == AllChunks(units, Len(units))
         paged  == PageProgress(jobs[proc[p].job], n)
     IN IF all = <<>>
        THEN /\ jobs' = [jobs EXCEPT ![proc[p].job] = paged]
             /\ proc' = [proc EXCEPT ![p].pc = "finish", ![p].units = units,
                           ![p].failed_pages = failed,
                           ![p].result = EmptyResult(failed)]
        ELSE /\ jobs' = [jobs EXCEPT ![proc[p].job] =
                           UpdateStatus(paged, "RUNNING", Progress("chunked", <<>>), None)]
             /\ proc' = [proc EXCEPT ![p].pc = "chunked", ![p].units = units,
                           ![p].failed_pages = failed, ![p].all_chunks = all]
  /\ UNCHANGED << chunker, llm, rag, collections, documents, chunks >>

\* handler.extract_text raises (missing file, corrupt container, ...).
HandlerExtractRaises(p, msg) ==
  /\ proc[p].pc = "extract"
  /\ proc[p].handler # NoHandler
  /\ Fail(p, "extraction", msg)
  /\ UNCHANGED << chunker, llm, rag, collections, documents, chunks >>

\* chunk_texts of _process_legacy_text, lines 309-311.
LegacyChunkTexts(cs) ==
  LET texts == SelectSeq([i \in 1..Len(cs) |-> cs[i].text], LAMBDA t : t # <<>>)
  IN IF texts = <<>> THEN << <<>> >> ELSE texts

\* The characters of a uri; the uris of the model are one character long.
UriChars(uri) == << uri >>

\* _load_text: "" for a missing uri, the file's text when the uri names a
\* file, the uri itself otherwise.
LoadText(uri, file) ==
  IF uri = NoUri \/ uri = "" THEN <<>>
  ELSE IF file.is_file THEN file.text
  ELSE UriChars(uri)

\* _process_legacy_text, lines 305-316: load, chunk, "chunked" progress update.
LegacyLoad(p, file) ==
  /\ proc[p].pc = "extract"
  /\ proc[p].handler = NoHandler
  /\ file \in Files
  /\ jobs' = [jobs EXCEPT ![proc[p].job] =
                UpdateStatus(@, "RUNNING", Progress("chunked", <<>>), None)]
  /\ LET text == LoadText(proc[p].payload.uri, file)
     IN proc' = [proc EXCEPT ![p].pc = "chunked", ![p].file = file, ![p].loaded = text,
                             ![p].chunks = SimpleChunk(text)]
  /\ UNCHANGED << chunker, llm, rag, collections, documents, chunks >>

\* _load_text raises (unreadable file).
LegacyLoadRaises(p, msg) ==
  /\ proc[p].pc = "extract"
  /\ proc[p].handler = NoHandler
  /\ Fail(p, "extraction", msg)
  /\ UNCHANGED << chunker, llm, rag, collections, documents, chunks >>

\* The texts handed to embedder.embed on either path.
EmbedInput(pr) ==
  IF pr.handler # NoHandler
  THEN [i \in 1..Len(pr.all_chunks) |-> pr.all_chunks[i].text]
  ELSE LegacyChunkTexts(pr.chunks)

\* Lines 252-254 and 319-320: embed all chunk texts, "embedded" progress update.
Embed(p) ==
  /\ proc[p].pc = "chunked"
  /\ jobs' = [jobs EXCEPT ![proc[p].job] =
                UpdateStatus(@, "RUNNING", Progress("embedded", <<>>), None)]
  /\ proc' = [proc EXCEPT ![p].pc = "embedded", ![p].embeddings = HashEmbed(EmbedInput(proc[p]))]
  /\ UNCHANGED << chunker, llm, rag, collections, documents, chunks >>

EmbedRaises(p, msg) ==
  /\ proc[p].pc = "chunked"
  /\ Fail(p, "embedding", msg)
  /\ UNCHANGED << chunker, llm, rag, collections, documents, chunks >>

\* Rows numbered by the chunk's index inside its page instead of job-wide.
HandlerRowsPerPage(pr, coll) ==
  [ i \in 1..Min(Len(pr.all_chunks), Len(pr.embeddings)) |->
      [ document_id |-> pr.doc, collection_id |-> coll, chunk_index |-> pr.all_chunks[i].in_page,
        text |-> pr.all_chunks[i].text, embedding |-> pr.embeddings[i],
        unit |-> pr.all_chunks[i].unit, in_page |-> pr.all_chunks[i].in_page ] ]

\* Lines 258-270: one row per (chunk, embedding) pair, chunk_index = position.
HandlerRows(pr, coll) ==
  [ i \in 1..Min(Len(pr.all_chunks), Len(pr.embeddings)) |->
      [ document_id |-> pr.doc, collection_id |-> coll, chunk_index |-> i - 1,
        text |-> pr.all_chunks[i].text, embedding |-> pr.embeddings[i],
        unit |-> pr.all_chunks[i].unit, in_page |-> pr.all_chunks[i].in_page ] ]

\* Lines 324-339: one row per non-empty chunk, chunk_index = its position i in
\* the chunker's output, embedding taken at the running index emb_i.
LegacyRows(pr, coll) ==
  LET cs == pr.chunks
      F[i \in 0..Len(cs)] ==
        IF i = 0 THEN <<>>
        ELSE IF cs[i].text = <<>> THEN F[i - 1]
             ELSE Append(F[i - 1],
                    [ document_id |-> pr.doc, collection_id |-> coll, chunk_index |-> i - 1,
                      text |-> cs[i].text, embedding |-> pr.embeddings[Len(F[i - 1]) + 1],
                      unit |-> 0, in_page |-> 0 ])
  IN F[Len(cs)]

Rows(pr, coll) == IF pr.handler # NoHandler THEN HandlerRows(pr, coll) ELSE LegacyRows(pr, coll)

\* The result dict returned after persistence, lines 277-295 and 345-350.
FinalResult(pr, successful_chunks) ==
  IF pr.handler # NoHandler /\ pr.failed_pages # <<>> /\ successful_chunks > 0
  THEN Result("PARTIAL", pr.failed_pages,
              Str("Some pages failed extraction. Failed pages: ", pr.failed_pages))
  ELSE Result("COMPLETED", <<>>, None)

\* bulk_create committing inside its loop and stopped after the first row.
BulkCreateFirstRow(table, rows) == Append(table, rows[1])

\* ChunkRepository.bulk_create: every row of the call in one commit.
BulkCreate(table, rows) == table \o rows

\* The persistence step returning its result without the bulk insert.
PersistSkipsInsert(p) ==
  /\ proc[p].pc = "embedded"
  /\ LET rows == Rows(proc[p], documents[proc[p].doc].collection_id)
     IN proc' = [proc EXCEPT ![p].pc = "finish", ![p].result = FinalResult(proc[p], Len(rows))]
  /\ UNCHANGED << chunker, llm, rag, collections, jobs, documents, chunks >>

\* Lines 272-274 and 341-343: bulk_create when there are rows, then the result.
Persist(p) ==
  /\ proc[p].pc = "embedded"
  /\ LET rows == Rows(proc[p], documents[proc[p].doc].collection_id)
     IN /\ chunks' = IF rows # <<>> THEN BulkCreate(chunks, rows) ELSE chunks
        /\ proc' = [proc EXCEPT ![p].pc = "finish", ![p].result = FinalResult(proc[p], Len(rows))]
  /\ UNCHANGED << chunker, llm, rag, collections, jobs, documents >>

\* bulk_create raises: the session is discarded, no row is committed.
PersistRaises(p, msg) ==
  /\ proc[p].pc = "embedded"
  /\ Rows(proc[p], documents[proc[p].doc].collection_id) # <<>>
  /\ Fail(p, "persist", msg)
  /\ UNCHANGED << chunker, llm, rag, collections, documents, chunks >>

\* The final update_status without its progress argument on the COMPLETED branch.
FinishKeepsStage(p) ==
  /\ proc[p].pc = "finish"
  /\ jobs' = [jobs EXCEPT ![proc[p].job] =
                IF proc[p].result.status = "PARTIAL"
                THEN UpdateStatus(@, "PARTIAL", Progress("persisted", proc[p].result.failed_pages),
                                  proc[p].result.error_summary)
                ELSE UpdateStatus(@, "COMPLETED", NoProgress, None)]
  /\ proc' = [proc EXCEPT ![p].pc = "done",
                          ![p].ret = IF proc[p].result.status = "PARTIAL" THEN "PARTIAL" ELSE "COMPLETED"]
  /\ UNCHANGED << chunker, llm, rag, collections, documents, chunks >>

\* ingest, lines 73-84: the final update_status and the return.
Finish(p) ==
  /\ proc[p].pc = "finish"
  /\ jobs' = [jobs EXCEPT ![proc[p].job] =
                IF proc[p].result.status = "PARTIAL"
                THEN UpdateStatus(@, "PARTIAL", Progress("persisted", proc[p].result.failed_pages),
                                  proc[p].result.error_summary)
                ELSE UpdateStatus(@, "COMPLETED", Progress("persisted", <<>>), None)]
  /\ proc' = [proc EXCEPT ![p].pc = "done",
                          ![p].ret = IF proc[p].result.status = "PARTIAL" THEN "PARTIAL" ELSE "COMPLETED"]
  /\ UNCHANGED << chunker, llm, rag, collections, documents, chunks >>

Next ==
  \/ \E p \in Procs, payload \in Payloads : IngestRejected(p, payload)
  \/ \E p \in Procs, payload \in Payloads : IngestAccepted(p, payload)
  \/ \E p \in Procs : Begin(p)
  \/ \E p \in Procs : CreateDocument(p)
  \/ \E p \in Procs, msg \in ExcMessages : CreateDocumentRaises(p, msg)
  \/ \E p \in Procs : DocumentCreated(p)
  \/ \E p \in Procs : \E units \in ExtractText(proc[p].handler) : HandlerExtract(p, units)
  \/ \E p \in Procs, msg \in ExcMessages : HandlerExtractRaises(p, msg)
  \/ \E p \in Procs, file \in Files : LegacyLoad(p, file)
  \/ \E p \in Procs, msg \in ExcMessages : LegacyLoadRaises(p, msg)
  \/ \E p \in Procs : Embed(p)
  \/ \E p \in Procs, msg \in ExcMessages : EmbedRaises(p, msg)
  \/ \E p \in Procs : Persist(p)
  \/ \E p \in Procs, msg \in ExcMessages : PersistRaises(p, msg)
  \/ \E p \in Procs : Finish(p)

Spec == Init /\ [][Next]_vars

\* The same calls with the requests that fill both collections from text
\* sources: the store the retrieval claims are checked on.
StorePayloads ==
  { Payload("A", "file", "txt", "u"),
    Payload("B", "file", "txt", "u"),
    Payload("B", "url", "pdf", "u"),
    Payload("Z", "file", "txt", "u") }

StoreNext ==
  \/ \E p \in Procs, payload \in StorePayloads : IngestRejected(p, payload)
  \/ \E p \in Procs, payload \in StorePayloads : IngestAccepted(p, payload)
  \/ \E p \in Procs : Begin(p)
  \/ \E p \in Procs : CreateDocument(p)
  \/ \E p \in Procs, msg \in ExcMessages : CreateDocumentRaises(p, msg)
  \/ \E p \in Procs : DocumentCreated(p)
  \/ \E p \in Procs : \E units \in ExtractText(proc[p].handler) : HandlerExtract(p, units)
  \/ \E p \in Procs, msg \in ExcMessages : HandlerExtractRaises(p, msg)
  \/ \E p \in Procs, file \in Files : LegacyLoad(p, file)
  \/ \E p \in Procs, msg \in ExcMessages : LegacyLoadRaises(p, msg)
  \/ \E p \in Procs : Embed(p)
  \/ \E p \in Procs, msg \in ExcMessages : EmbedRaises(p, msg)
  \/ \E p \in Procs : Persist(p)
  \/ \E p \in Procs, msg \in ExcMessages : PersistRaises(p, msg)
  \/ \E p \in Procs : Finish(p)

StoreSpec == Init /\ [][StoreNext]_vars

\* The steps of one ingest call after its job row exists.  The call runs
\* synchronously in its thread, and every capability it calls returns or raises.
ProcNext(p) ==
  \/ Begin(p)
  \/ CreateDocument(p)
  \/ DocumentCreated(p)
  \/ \E units \in ExtractText(proc[p].handler) : HandlerExtract(p, units)
  \/ \E file \in Files : LegacyLoad(p, file)
  \/ Embed(p)
  \/ Persist(p)
  \/ Finish(p)
  \/ \E msg \in ExcMessages :
       \/ CreateDocumentRaises(p, msg)
       \/ HandlerExtractRaises(p, msg)
       \/ LegacyLoadRaises(p, msg)
       \/ EmbedRaises(p, msg)
       \/ PersistRaises(p, msg)

FairSpec == Spec /\ \A p \in Procs : WF_vars(ProcNext(p))

\* ------------------------------------------ ChunkRepository.search_similar
\* The query without its WHERE clause.
InCollectionUnscoped(row, c) == TRUE

\* WHERE collection_id = :cid
InCollection(row, c) == row.collection_id = c

Dot(a, b) == a[1] * b[1] + a[2] * b[2]

\* What the cosine distance of an embedding e to q depends on: e.q and e.e.
DistKey(e, q) == [dot |-> Dot(e, q), norm |-> Dot(e, e)]

\* Key a is at a strictly smaller cosine distance than key b, i.e.
\* a.dot/sqrt(a.norm) > b.dot/sqrt(b.norm), decided on integers.
Closer(a, b) ==
  CASE a.dot >= 0 /\ b.dot < 0  -> TRUE
    [] a.dot < 0 /\ b.dot >= 0  -> FALSE
    [] a.dot >= 0 /\ b.dot >= 0 -> a.dot * a.dot * b.norm > b.dot * b.dot * a.norm
    [] OTHER                    -> a.dot * a.dot * b.norm < b.dot * b.dot * a.norm

\* ORDER BY embedding <=> :qvec names no second key, so rows at equal distance
\* come back in an order the engine picks: storage order or its reverse here.
TieOrders == {"asc", "desc"}

\* ORDER BY ... DESC: the farthest row first.
BeforeDescending(table, i, j, q, tie) ==
  \/ Closer(DistKey(table[j].embedding, q), DistKey(table[i].embedding, q))
  \/ /\ ~Closer(DistKey(table[i].embedding, q), DistKey(table[j].embedding, q))
     /\ IF tie = "asc" THEN i < j ELSE i > j

\* Row i sorts before row j.
Before(table, i, j, q, tie) ==
  \/ Closer(DistKey(table[i].embedding, q), DistKey(table[j].embedding, q))
  \/ /\ ~Closer(DistKey(table[j].embedding, q), DistKey(table[i].embedding, q))
     /\ IF tie = "asc" THEN i < j ELSE i > j

\* The rows of S sorted by distance: a row's rank is the number of rows before it.
Rank(table, S, i, q, tie) == Cardinality({ j \in S : Before(table, j, i, q, tie) })

\* The ranks of the rows of the table, computed once; -1 for a row outside S.
Ranks(table, S, q, tie) ==
  SubSeq([ i \in 1..Len(table) |-> IF i \in S THEN Rank(table, S, i, q, tie) ELSE -1 ],
         1, Len(table))

\* The sorted rows: position k holds the row of rank k - 1.
ByRank(ranks, S) == [ k \in 1..Cardinality(S) |-> CHOOSE i \in S : ranks[i] = k - 1 ]

OrderBy(table, S, q, tie) == ByRank(Ranks(table, S, q, tie), S)

\* The clamp without its upper limit.
ClampTopKUncapped(top_k) == Max(1, top_k)

\* top_k = max(1, min(top_k, 50))
ClampTopK(top_k) == Max(1, Min(top_k, TopKMax))

\* The rows search_similar returns, each with its storage position.
SearchSimilar(table, c, q, top_k, tie) ==
  LET hits    == { i \in 1..Len(table) : InCollection(table[i], c) }
      ordered == OrderBy(table, hits, q, tie)
      n       == Min(ClampTopK(top_k), Len(ordered))
  IN [ k \in 1..n |-> [chunk |-> table[ordered[k]], pos |-> ordered[k]] ]

QueryVecs == { <<1, 3>>, <<-3, 1>> }

\* ------------------------------------------------------- RetrievalService
\* EmbeddingService.embed: the sentence-transformers model all-MiniLM-L6-v2, a
\* learned function of the text that returns unit-length vectors; abstracted
\* to the unit vector the text's characters select.
RECURSIVE CodeSum(_)
CodeSum(t) == IF t = <<>> THEN 0 ELSE Code(Head(t)) + CodeSum(Tail(t))

SemanticEmbedOne(t) ==
  CASE CodeSum(t) % 4 = 0 -> << 1, 0 >>
    [] CodeSum(t) % 4 = 1 -> << 0, 1 >>
    [] CodeSum(t) % 4 = 2 -> << -1, 0 >>
    [] OTHER              -> << 0, -1 >>

\* RetrievalService.query, line 28: self.embedder.embed([query])[0], the
\* embedder being the EmbeddingService built in __init__.
QueryEmbed(t) == SemanticEmbedOne(t)

\* RetrievalService.query: embed the query, delegate to search_similar.
RetrievalQuery(table, c, query, top_k, tie) ==
  SearchSimilar(table, c, QueryEmbed(query), top_k, tie)

TopKs == { -1, 0, 1, 2, 51 }

\* ------------------------------------------------ llm/prompt_builder
\* Line 37: one token is taken as four characters.
CharsPerToken == 4

\* Line 45 and line 51: the allowance for one "\n---\n" separator.
SeparatorAllowance == 5

\* Line 52: the budget a partial chunk needs.
MeaningfulSpace == 100

\* api/answer.py line 93: the context budget answer() passes.
AnswerContextTokens == 400

Separator == << "\n", "-", "-", "-", "\n" >>

Ellipsis == << ".", ".", "." >>

\* "\n---\n".join(parts).
RECURSIVE Join(_)
Join(parts) ==
  IF parts = <<>> THEN <<>>
  ELSE IF Len(parts) = 1 THEN parts[1]
  ELSE parts[1] \o Separator \o Join(Tail(parts))

\* Lines 44-54: the loop over context_chunks from chunk i on, truncated_chunks
\* and current_length being what the earlier chunks left.
RECURSIVE TruncateLoop(_, _, _, _, _)
TruncateLoop(context_chunks, i, truncated_chunks, current_length, available_length) ==
  IF i > Len(context_chunks) THEN truncated_chunks
  ELSE LET chunk == context_chunks[i]
           chunk_length == Len(chunk) + SeparatorAllowance
       IN IF current_length + chunk_length <= available_length
          THEN TruncateLoop(context_chunks, i + 1, Append(truncated_chunks, chunk),
                            current_length + chunk_length, available_length)
          ELSE LET remaining == available_length - current_length - SeparatorAllowance
               IN IF remaining > MeaningfulSpace
                  THEN Append(truncated_chunks, SubSeq(chunk, 1, Min(remaining, Len(chunk))) \o Ellipsis)
                  ELSE truncated_chunks

\* Lines 37-65: context_text.
ContextText(context_chunks, max_context_tokens) ==
  LET available_length == max_context_tokens * CharsPerToken
      total_context == Join(context_chunks)
  IN IF Len(total_context) > available_length
     THEN Join(TruncateLoop(context_chunks, 1, <<>>, 0, available_length))
     ELSE total_context

\* build_rag_prompt: the template chosen and the two strings it interpolates.
BuildRagPrompt(question, context_chunks, max_context_tokens, use_instruction_format) ==
  IF context_chunks = <<>>
  THEN [ format |-> "question_only", context_text |-> <<>>, question |-> question ]
  ELSE [ format |-> IF use_instruction_format THEN "instruction" ELSE "base",
         context_text |-> ContextText(context_chunks, max_context_tokens),
         question |-> question ]

\* ----------------------------------------------------------- api/answer
Questions == { <<"a">>, <<"c", "d">> }

AnswerTopKs == { 1, 2 }

NoInfoAnswer == "I could not find any relevant information to answer your question."

\* What llm.generate returns: text of the model's making.
Generated == "generated"

\* answer without its short circuit: the generator runs on an empty context.
EmptyAnswerNever(results) == FALSE

\* Line 44: "if not results".
EmptyAnswer(results) == results = <<>>

\* A citation carrying the chunk's storage position where its index belongs.
CitationIdAsIndex(r) ==
  [document_id |-> r.chunk.document_id, chunk_id |-> r.pos, chunk_index |-> r.pos]

\* Citation(document_id, chunk_id, chunk_index) of one result; the chunk's id
\* is written as its storage position.
Citation(r) ==
  [document_id |-> r.chunk.document_id, chunk_id |-> r.pos, chunk_index |-> r.chunk.chunk_index]

\* answer, lines 30-67: retrieval, then either the fixed response or the
\* context and citations the generation step will use.
AnswerRetrieve(c, question, top_k, tie) ==
  /\ rag.pc = "idle"
  /\ LET results == RetrievalQuery(chunks, c, question, top_k, tie)
     IN rag' = IF EmptyAnswer(results)
               THEN [ rag EXCEPT !.pc = "answered", !.collection_id = c, !.question = question,
                                 !.top_k = top_k, !.results = results,
                                 !.answer = NoInfoAnswer, !.citations = <<>>, !.context = <<>> ]
               ELSE [ rag EXCEPT !.pc = "retrieved", !.collection_id = c, !.question = question,
                                 !.top_k = top_k, !.results = results,
                                 !.context = [i \in 1..Len(results) |-> results[i].chunk.text],
                                 !.citations = [i \in 1..Len(results) |-> Citation(results[i])] ]
  /\ UNCHANGED << chunker, llm, collections, jobs, documents, chunks, proc >>

\* retriever.query raises (embedding model or store unavailable): answer re-raises.
AnswerRetrieveRaises ==
  /\ rag.pc = "idle"
  /\ rag' = [rag EXCEPT !.pc = "raised"]
  /\ UNCHANGED << chunker, llm, collections, jobs, documents, chunks, proc >>

\* answer, lines 81-136: prompt, llm.generate, the response.
AnswerGenerate(use_instruction_format) ==
  /\ rag.pc = "retrieved"
  /\ rag' = [rag EXCEPT !.pc = "answered", !.answer = Generated,
                        !.max_context_tokens = AnswerContextTokens,
                        !.prompt = BuildRagPrompt(rag.question, rag.context, AnswerContextTokens,
                                                  use_instruction_format),
                        !.generate_calls = @ + 1]
  /\ UNCHANGED << chunker, llm, collections, jobs, documents, chunks, proc >>

\* llm.generate raises: answer re-raises after the call was made.
AnswerGenerateRaises ==
  /\ rag.pc = "retrieved"
  /\ rag' = [rag EXCEPT !.pc = "raised", !.generate_calls = @ + 1]
  /\ UNCHANGED << chunker, llm, collections, jobs, documents, chunks, proc >>

\* One answer() call against the store the ingests of StoreNext fill.
AnswerNext ==
  \/ StoreNext
  \/ \E c \in CollIds, question \in Questions, top_k \in AnswerTopKs, tie \in TieOrders :
       AnswerRetrieve(c, question, top_k, tie)
  \/ AnswerRetrieveRaises
  \/ \E use_instruction_format \in BOOLEAN : AnswerGenerate(use_instruction_format)
  \/ AnswerGenerateRaises

AnswerSpec == Init /\ [][AnswerNext]_vars

\* ------------------------------------------- build_rag_prompt called directly
\* build_rag_prompt is a pure function: PromptSpec applies it to context lists
\* whose lengths straddle the budget.
MaxContext == 2

Filler(n) == [ i \in 1..n |-> "x" ]

PromptChunks == { Filler(n) : n \in { 9, 10, 11, 110, 118, 130 } }

PromptTokens == { 30, 31 }

ContextLists == UNION { [ 1..n -> PromptChunks ] : n \in 0..MaxContext }

PromptBuild(question, context_chunks, max_context_tokens, use_instruction_format) ==
  /\ rag.pc = "idle"
  /\ rag' = [rag EXCEPT !.pc = "prompted", !.question = question, !.context = context_chunks,
                        !.max_context_tokens = max_context_tokens,
                        !.prompt = BuildRagPrompt(question, context_chunks, max_context_tokens,
                                                  use_instruction_format)]
  /\ UNCHANGED << chunker, llm, collections, jobs, documents, chunks, proc >>

PromptNext ==
  \E question \in Questions, context_chunks \in ContextLists,
     max_context_tokens \in PromptTokens, use_instruction_format \in BOOLEAN :
    PromptBuild(question, context_chunks, max_context_tokens, use_instruction_format)

PromptSpec == Init /\ [][PromptNext]_vars

\* ------------------------------------------------ the chunkers called directly
\* Both chunkers are pure: ChunkerSpec builds one with any configuration and
\* applies it to every text over a four-character alphabet.
MaxChunkSize == 4

MaxText == 5

ChunkerTexts == UNION { [ 1..n -> { "a", "B", ".", " " } ] : n \in 0..MaxText }

\* __init__ of either chunker: ValueError on a configuration out of range.
ChunkerNew(kind, chunk_size, overlap) ==
  /\ chunker.pc = "none"
  /\ chunker' = IF chunk_size <= 0 \/ overlap < 0 \/ overlap >= chunk_size
                THEN [ chunker EXCEPT !.pc = "invalid" ]
                ELSE [ chunker EXCEPT !.pc = "ready", !.kind = kind,
                                      !.chunk_size = chunk_size, !.overlap = overlap ]
  /\ UNCHANGED << llm, rag, collections, jobs, documents, chunks, proc >>

\* chunk(text) on the instance built.
ChunkerChunk(text) ==
  /\ chunker.pc = "ready"
  /\ chunker' = [ chunker EXCEPT
                    !.pc = "chunked", !.text = text,
                    !.out = IF chunker.kind = "simple"
                            THEN SimpleChunkerChunk(text, chunker.chunk_size, chunker.overlap)
                            ELSE SentenceChunkerChunk(text, chunker.chunk_size, chunker.overlap) ]
  /\ UNCHANGED << llm, rag, collections, jobs, documents, chunks, proc >>

ChunkerNext ==
  \/ \E kind \in { "simple", "sentence" }, chunk_size \in 0..MaxChunkSize,
        overlap \in -1..MaxChunkSize : ChunkerNew(kind, chunk_size, overlap)
  \/ \E text \in ChunkerTexts : ChunkerChunk(text)

ChunkerSpec == Init /\ [][ChunkerNext]_vars

\* ------------------------------------------------------------------ LocalLLM
\* The answer endpoint is a plain def: the server runs it on worker threads,
\* all sharing the module-level llm.  A step is one statement that reads or
\* writes the instance.
MaxGenerate == 4

\* generate, line 536: "if not self._loaded: self._load_model()".
GenerateEnter(t) ==
  /\ llm.pc[t] = "idle"
  /\ llm.calls < MaxGenerate
  /\ llm' = [ llm EXCEPT !.calls = @ + 1,
                         !.pc[t] = IF llm.loaded THEN "generating" ELSE "load_check" ]
  /\ UNCHANGED << chunker, rag, collections, jobs, documents, chunks, proc >>

\* _load_model, line 473: "if self._loaded: return".
LoadCheck(t) ==
  /\ llm.pc[t] = "load_check"
  /\ llm' = [ llm EXCEPT !.pc[t] = IF llm.loaded THEN "generating" ELSE "load_tokenizer" ]
  /\ UNCHANGED << chunker, rag, collections, jobs, documents, chunks, proc >>

\* Line 486: AutoTokenizer.from_pretrained.
LoadTokenizer(t) ==
  /\ llm.pc[t] = "load_tokenizer"
  /\ llm' = [ llm EXCEPT !.tokenizer_loads = @ + 1, !.pc[t] = "load_model" ]
  /\ UNCHANGED << chunker, rag, collections, jobs, documents, chunks, proc >>

\* Lines 493-498: AutoModelForCausalLM.from_pretrained, to(device), eval().
LoadModel(t) ==
  /\ llm.pc[t] = "load_model"
  /\ llm' = [ llm EXCEPT !.model_loads = @ + 1, !.pc[t] = "set_loaded" ]
  /\ UNCHANGED << chunker, rag, collections, jobs, documents, chunks, proc >>

\* Lines 516-524: from_pretrained raises; generate raises ValueError and
\* _loaded stays False.
LoadModelRaises(t) ==
  /\ llm.pc[t] = "load_model"
  /\ llm' = [ llm EXCEPT !.model_loads = @ + 1, !.pc[t] = "idle" ]
  /\ UNCHANGED << chunker, rag, collections, jobs, documents, chunks, proc >>

\* Line 503: self._loaded = True.
SetLoaded(t) ==
  /\ llm.pc[t] = "set_loaded"
  /\ llm' = [ llm EXCEPT !.loaded = TRUE, !.pc[t] = "generating" ]
  /\ UNCHANGED << chunker, rag, collections, jobs, documents, chunks, proc >>

\* The rest of generate: tokenize, model.generate, decode, return.
GenerateReturn(t) ==
  /\ llm.pc[t] = "generating"
  /\ llm' = [ llm EXCEPT !.pc[t] = "idle" ]
  /\ UNCHANGED << chunker, rag, collections, jobs, documents, chunks, proc >>

LLMNext ==
  \E t \in Threads :
    \/ GenerateEnter(t)
    \/ LoadCheck(t)
    \/ LoadTokenizer(t)
    \/ LoadModel(t)
    \/ LoadModelRaises(t)
    \/ SetLoaded(t)
    \/ GenerateReturn(t)

LLMSpec == Init /\ [][LLMNext]_vars

\* ------------------------------------- the job repository called directly
\* IngestionJobRepository is a public class: RepoSpec exercises create and
\* update_status with arbitrary arguments, as any caller of the class may.
ProgressArgs == { NoProgress, Progress("extracting", <<>>) }

ErrorArgs == { None, Str("boom", <<>>) }

RepoCreate(payload) ==
  /\ Cardinality(DOMAIN jobs) < MaxRows
  /\ payload = Payload("A", "file", "pdf", "u")
  /\ jobs' = Insert(jobs, Cardinality(DOMAIN jobs) + 1, NewJob(payload))
  /\ UNCHANGED << chunker, llm, rag, collections, documents, chunks, proc >>

\* update_status, lines 82-111, for a job id that exists.
RepoUpdateStatus(j, status, progress, error_summary) ==
  /\ j \in DOMAIN jobs
  /\ jobs[j].calls < MaxCalls
  /\ jobs' = [jobs EXCEPT ![j] = UpdateStatus(@, status, progress, error_summary)]
  /\ UNCHANGED << chunker, llm, rag, collections, documents, chunks, proc >>

RepoNext ==
  \/ \E payload \in Payloads : RepoCreate(payload)
  \/ \E j \in DOMAIN jobs, status \in Statuses, progress \in ProgressArgs, e \in ErrorArgs :
       RepoUpdateStatus(j, status, progress, e)

RepoSpec == Init /\ [][RepoNext]_vars

\* ----------------------------------- the chunk repository called directly
\* ChunkRepository and DocumentRepository are public classes: ChunkStoreSpec
\* fills the store through them, one document per collection, up to more rows
\* than search_similar ever returns.  The rows of collection B go in first.
StoreDoc(c) == [collection_id |-> c, source_type |-> "file", format |-> "txt", uri |-> "u"]

StoreDocCreate(c) ==
  /\ c \in collections
  /\ \A d \in DOMAIN documents : documents[d].collection_id # c
  /\ documents' = Insert(documents, Cardinality(DOMAIN documents) + 1, StoreDoc(c))
  /\ UNCHANGED << chunker, llm, rag, collections, jobs, chunks, proc >>

\* The ChunkCreate a caller builds for the next chunk of document d.
StoreRow(d, text) ==
  [ document_id |-> d, collection_id |-> documents[d].collection_id,
    chunk_index |-> Cardinality({ i \in 1..Len(chunks) : chunks[i].document_id = d }),
    text |-> text, embedding |-> HashEmbedOne(text), unit |-> 0, in_page |-> 0 ]

StoreBulkCreate(d, text) ==
  /\ d \in DOMAIN documents
  /\ Len(chunks) < MaxStore
  /\ documents[d].collection_id = "B" =>
       /\ Len(chunks) < MaxUnits
       /\ \A i \in 1..Len(chunks) : chunks[i].collection_id = "B"
  /\ chunks' = BulkCreate(chunks, << StoreRow(d, text) >>)
  /\ UNCHANGED << chunker, llm, rag, collections, jobs, documents, proc >>

ChunkStoreNext ==
  \/ \E c \in CollIds : StoreDocCreate(c)
  \/ \E d \in DOMAIN documents : StoreBulkCreate(d, <<"a">>)

ChunkStoreSpec == Init /\ [][ChunkStoreNext]_vars

\* ================================================================= claims
\* C1: once a job's status is COMPLETED, PARTIAL or FAILED, every further
\* update_status call leaves its status, progress, error_summary, started_at
\* and completed_at exactly as they were.
C1_TerminalIsFinal ==
  [][ \A j \in DOMAIN jobs :
        jobs[j].status \in Terminal =>
          /\ jobs'[j].status = jobs[j].status
          /\ jobs'[j].progress = jobs[j].progress
          /\ jobs'[j].error_summary = jobs[j].error_summary
          /\ jobs'[j].started_at = jobs[j].started_at
          /\ jobs'[j].completed_at = jobs[j].completed_at ]_vars

\* C2: whatever the ingests have stored, every chunk search_similar returns
\* for collection c, for any query vector and top_k, has collection_id c.
C2_SearchScoped ==
  \A c \in CollIds, q \in QueryVecs, k \in TopKs, tie \in TieOrders :
    LET res == SearchSimilar(chunks, c, q, k, tie)
    IN \A i \in 1..Len(res) : res[i].chunk.collection_id = c

\* Both collections hold chunks and a search on A returns some of them.
C2_Witness ==
  /\ \E i \in 1..Len(chunks) : chunks[i].collection_id = "A"
  /\ \E i \in 1..Len(chunks) : chunks[i].collection_id = "B"
  /\ \E q \in QueryVecs : Len(SearchSimilar(chunks, "A", q, 2, "asc")) > 0

\* The requests C3 calls invalid.
C3_Invalid(payload) ==
  \/ payload.collection_id \notin collections
  \/ payload.source_type = ""
  \/ payload.format = ""
  \/ payload.source_type = "url" /\ payload.uri \in {NoUri, ""}

\* C3: an ingest call whose collection does not exist, whose source_type or
\* format is missing, or whose source_type is url without a uri, raises and
\* leaves the job, document and chunk tables unchanged.
C3_ValidatedBeforeCreate ==
  [][ \A p \in Procs :
        (proc[p].pc = "idle" /\ proc'[p].pc # "idle" /\ C3_Invalid(proc'[p].payload)) =>
          /\ proc'[p].pc = "rejected"
          /\ proc'[p].raised # ""
          /\ proc'[p].job = NoJob
          /\ jobs' = jobs /\ documents' = documents /\ chunks' = chunks ]_vars

\* A url request without uri and a request for a missing collection were both
\* rejected while the tables are still empty.
C3_Witness ==
  /\ \E p \in Procs : /\ proc[p].pc = "rejected"
                      /\ proc[p].payload.source_type = "url"
                      /\ proc[p].payload.uri = NoUri
  /\ \E p \in Procs : /\ proc[p].pc = "rejected"
                      /\ proc[p].payload.collection_id \notin collections
  /\ jobs = EmptyTable /\ documents = EmptyTable /\ chunks = <<>>

\* C4: every ingest call that passes validation eventually returns, and the
\* job it returns and the job stored under its id are COMPLETED, PARTIAL or
\* FAILED, whether the capabilities it calls succeed or raise.
C4_IngestEndsTerminal ==
  \A p \in Procs :
    (proc[p].pc = "created") ~>
      (/\ proc[p].pc = "done"
       /\ proc[p].ret \in Terminal
       /\ jobs[proc[p].job].status \in Terminal)

\* One call returned after an exception and another after none.
C4_Witness ==
  /\ \E p \in Procs : proc[p].pc = "done" /\ proc[p].exc # "" /\ proc[p].ret = "FAILED"
  /\ \E p \in Procs : proc[p].pc = "done" /\ proc[p].exc = "" /\ proc[p].ret = "COMPLETED"

\* C5: when document creation, extraction, embedding or the bulk insert
\* raises, the job ends FAILED with the exception's message as error_summary
\* and no chunk row exists for its document.
C5_FailureRecorded ==
  \A p \in Procs :
    (proc[p].pc = "done" /\ proc[p].exc # "") =>
      /\ jobs[proc[p].job].status = "FAILED"
      /\ jobs[proc[p].job].error_summary = Str(proc[p].raised, <<>>)
      /\ \A i \in 1..Len(chunks) : chunks[i].document_id # proc[p].doc

\* A unit-level failure as the handlers signal it: empty text and an
\* extraction_error entry in the metadata.
Signalled(u) == u.text = <<>> /\ u.has_error

\* The names of the units of an extraction that signalled a failure, in order.
RECURSIVE SignalledPages(_, _)
SignalledPages(units, n) ==
  IF n = 0 THEN <<>>
  ELSE IF Signalled(units[n])
       THEN Append(SignalledPages(units, n - 1), PageName(units[n], n))
       ELSE SignalledPages(units, n - 1)

\* The non-empty chunk texts the chunker yields for one text.
NonEmptyChunks(text) ==
  SelectSeq([i \in 1..Len(SimpleChunk(text)) |-> SimpleChunk(text)[i].text], LAMBDA t : t # <<>>)

\* The rows stored for a document, in storage order.
DocChunks(d) == SelectSeq(chunks, LAMBDA r : r.document_id = d)

\* C6: when some but not all units of an extraction signal a unit-level failure
\* and another unit yields a non-empty chunk, the job ends PARTIAL, its
\* error_summary names exactly the failed units, and every persisted chunk
\* comes from a unit that did not fail.
C6_PartialOnUnitFailure ==
  \A p \in Procs :
    LET pr == proc[p] IN
    ( /\ pr.pc = "done" /\ pr.exc = "" /\ pr.handler # NoHandler
      /\ \E i \in 1..Len(pr.units) : Signalled(pr.units[i])
      /\ \E i \in 1..Len(pr.units) : ~Signalled(pr.units[i]) /\ NonEmptyChunks(pr.units[i].text) # <<>> )
    =>
      /\ jobs[pr.job].status = "PARTIAL"
      /\ jobs[pr.job].error_summary.pages = SignalledPages(pr.units, Len(pr.units))
      /\ \A i \in 1..Len(chunks) :
           chunks[i].document_id = pr.doc => ~Signalled(pr.units[chunks[i].unit])

\* C7: a job ends PARTIAL only if a unit failed and a chunk was persisted for
\* its document; if every unit of the extraction failed, the job ends FAILED.
C7_PartialNeedsChunk ==
  \A p \in Procs :
    LET pr == proc[p] IN
    pr.pc = "done" =>
      /\ jobs[pr.job].status = "PARTIAL" =>
           /\ \E i \in 1..Len(pr.units) : Signalled(pr.units[i])
           /\ DocChunks(pr.doc) # <<>>
      /\ ( /\ pr.handler # NoHandler /\ pr.units # <<>>
           /\ \A i \in 1..Len(pr.units) : Signalled(pr.units[i]) )
         => jobs[pr.job].status = "FAILED"

\* C8: a job ends COMPLETED only if no unit signalled a unit-level failure,
\* and a COMPLETED job has no error_summary.
C8_CompletedMeansNoFailure ==
  \A p \in Procs :
    LET pr == proc[p] IN
    (pr.pc = "done" /\ jobs[pr.job].status = "COMPLETED") =>
      /\ \A i \in 1..Len(pr.units) : ~Signalled(pr.units[i])
      /\ jobs[pr.job].error_summary = None

\* An ingest that ran to its end without an exception or a failed unit and
\* whose source gave no non-empty chunk.
C9_NoContent(pr) ==
  /\ pr.pc = "done" /\ pr.exc = ""
  /\ \A i \in 1..Len(pr.units) : ~Signalled(pr.units[i])
  /\ IF pr.handler # NoHandler
     THEN \A i \in 1..Len(pr.units) : NonEmptyChunks(pr.units[i].text) = <<>>
     ELSE NonEmptyChunks(pr.loaded) = <<>>

\* C9: an extraction without failed unit and without any non-empty chunk ends
\* COMPLETED with zero chunks persisted, on the handler path and on the
\* fallback path.
C9_EmptySourceCompletes ==
  \A p \in Procs :
    C9_NoContent(proc[p]) =>
      /\ jobs[proc[p].job].status = "COMPLETED"
      /\ proc[p].ret = "COMPLETED"
      /\ DocChunks(proc[p].doc) = <<>>

\* A blank PDF page went through the handler path and a whitespace-only source
\* through the fallback path.
C9_Witness ==
  /\ \E p \in Procs : /\ C9_NoContent(proc[p]) /\ proc[p].handler = "pdf"
                      /\ Len(proc[p].units) > 0
  /\ \E p \in Procs : /\ C9_NoContent(proc[p]) /\ proc[p].handler = NoHandler
                      /\ proc[p].loaded = <<" ">>

\* The texts of the non-empty chunks of the units that did not fail, unit by
\* unit, in the order the chunker emits them.
RECURSIVE C10_Surviving(_, _)
C10_Surviving(units, n) ==
  IF n = 0 THEN <<>>
  ELSE C10_Surviving(units, n - 1)
         \o (IF Signalled(units[n]) THEN <<>> ELSE NonEmptyChunks(units[n].text))

C10_Expected(pr) ==
  IF pr.handler # NoHandler THEN C10_Surviving(pr.units, Len(pr.units))
  ELSE NonEmptyChunks(pr.loaded)

\* C10: after an ingest that ends COMPLETED or PARTIAL, the chunks stored for
\* its document are the surviving chunks in emission order, numbered
\* 0..n-1 without gap or duplicate.
C10_ContiguousIndex ==
  \A p \in Procs :
    (proc[p].pc = "done" /\ proc[p].ret \in {"COMPLETED", "PARTIAL"}) =>
      LET rows == DocChunks(proc[p].doc)
          exp  == C10_Expected(proc[p])
      IN /\ Len(rows) = Len(exp)
         /\ \A k \in 1..Len(rows) : rows[k].chunk_index = k - 1 /\ rows[k].text = exp[k]

\* A multi-page PDF stored at least three chunks and a fallback source with a
\* blank window stored two.
C10_Witness ==
  /\ \E p \in Procs : /\ proc[p].pc = "done" /\ proc[p].handler = "pdf"
                      /\ Len(DocChunks(proc[p].doc)) >= 3
  /\ \E p \in Procs : /\ proc[p].pc = "done" /\ proc[p].handler = NoHandler
                      /\ Len(DocChunks(proc[p].doc)) = 2

\* C11: with ingests running concurrently, each document's chunks are written
\* by one all-or-nothing bulk_create: in every state a document has none of
\* its chunks stored or all of them, every stored chunk carries the id of the
\* document of the call that produced it, and each document's chunks are
\* numbered 0..n-1.
C11_AtomicBulkCreate ==
  /\ \A p \in Procs :
       proc[p].doc # NoDoc =>
         LET rows == DocChunks(proc[p].doc)
         IN /\ \/ rows = <<>>
               \/ /\ proc[p].pc \in {"finish", "done"}
                  /\ rows = Rows(proc[p], documents[proc[p].doc].collection_id)
            /\ \A k \in 1..Len(rows) : rows[k].chunk_index = k - 1
  /\ \A i \in 1..Len(chunks) :
       \E p \in Procs : /\ proc[p].doc = chunks[i].document_id
                        /\ proc[p].pc \in {"finish", "done"}
                        /\ chunks[i].collection_id = proc[p].payload.collection_id

\* One call has stored several chunks while another, with rows of its own
\* ready, has not yet written any.
C11_Witness ==
  \E p, q \in Procs :
    /\ p # q
    /\ proc[p].doc # NoDoc /\ Len(DocChunks(proc[p].doc)) >= 2
    /\ proc[q].pc = "embedded"
    /\ Len(Rows(proc[q], documents[proc[q].doc].collection_id)) >= 2
    /\ DocChunks(proc[q].doc) = <<>>

\* C12: completed_at is null while a job is PENDING or RUNNING, is set when
\* the job first enters COMPLETED, PARTIAL or FAILED, and never changes after.
C12_CompletedAtSetOnce ==
  [][ \A j \in DOMAIN jobs' :
        /\ jobs'[j].status \in {"PENDING", "RUNNING"} => jobs'[j].completed_at = NoTime
        /\ jobs'[j].status \in Terminal => jobs'[j].completed_at # NoTime
        /\ (j \in DOMAIN jobs /\ jobs[j].completed_at # NoTime) =>
             jobs'[j].completed_at = jobs[j].completed_at ]_vars

\* C13: started_at is set exactly once, by the transition from PENDING to
\* RUNNING; the progress updates written while the job stays RUNNING leave it
\* unchanged.
C13_StartedAtSetOnce ==
  [][ \A j \in DOMAIN jobs :
        /\ (jobs[j].status = "PENDING" /\ jobs'[j].status = "RUNNING") =>
             jobs'[j].started_at # NoTime
        /\ jobs[j].started_at # NoTime => jobs'[j].started_at = jobs[j].started_at
        /\ (jobs[j].started_at = NoTime /\ jobs'[j].started_at # NoTime) =>
             (jobs[j].status = "PENDING" /\ jobs'[j].status = "RUNNING") ]_vars

\* C14: once ingest has created the document of a job and recorded the
\* document_created stage, the stored job's document_id is that document's id.
C14_DocumentBound ==
  \A p \in Procs :
    (proc[p].doc # NoDoc /\ proc[p].pc \in {"extract", "chunked", "embedded", "finish", "done"}) =>
      jobs[proc[p].job].document_id = proc[p].doc

\* C15: a request whose collection exists, with source_type file or text, a
\* format and no uri, is accepted: it creates its job and the job is returned
\* COMPLETED or FAILED.
C15_UriOnlyForUrl ==
  \A p \in Procs :
    ( /\ proc[p].pc # "idle"
      /\ proc[p].payload.collection_id \in collections
      /\ proc[p].payload.source_type \in {"file", "text"}
      /\ proc[p].payload.format # ""
      /\ proc[p].payload.uri = NoUri )
    =>
      /\ proc[p].pc # "rejected"
      /\ proc[p].job \in DOMAIN jobs
      /\ proc[p].pc = "done" => proc[p].ret \in {"COMPLETED", "FAILED"}

\* top_k clamped to 1..50, written out.
C16_Clamp(k) == IF k < 1 THEN 1 ELSE IF k > TopKMax THEN TopKMax ELSE k

\* C16: for every top_k and every collection holding n chunks, search_similar
\* returns at most min(clamp(top_k, 1, 50), n) results, and at least one
\* whenever n >= 1.
C16_ResultCount ==
  \A c \in CollIds, q \in QueryVecs, k \in TopKs, tie \in TieOrders :
    LET n   == Cardinality({ i \in 1..Len(chunks) : chunks[i].collection_id = c })
        res == SearchSimilar(chunks, c, q, k, tie)
    IN /\ Len(res) <= Min(C16_Clamp(k), n)
       /\ n >= 1 => Len(res) >= 1

\* Collection A holds more than 50 chunks and a search with top_k 51 returns
\* 50 of them, one with top_k 0 returns one.
C16_Witness ==
  /\ Cardinality({ i \in 1..Len(chunks) : chunks[i].collection_id = "A" }) > TopKMax
  /\ Len(SearchSimilar(chunks, "A", <<1, 3>>, 51, "asc")) = TopKMax
  /\ Len(SearchSimilar(chunks, "A", <<1, 3>>, 0, "asc")) = 1

\* C17: search_similar returns its results in ascending distance to the query
\* (scores non-increasing down the list), and no chunk of the collection left
\* out of the result is strictly closer to the query than a returned one.
C17_AscendingDistance ==
  \A c \in CollIds, q \in QueryVecs, k \in TopKs, tie \in TieOrders :
    LET res == SearchSimilar(chunks, c, q, k, tie)
        returned == { res[i].pos : i \in 1..Len(res) }
    IN /\ \A i \in 1..(Len(res) - 1) :
            ~Closer(DistKey(res[i + 1].chunk.embedding, q), DistKey(res[i].chunk.embedding, q))
       /\ \A j \in 1..Len(chunks) :
            (chunks[j].collection_id = c /\ j \notin returned) =>
              \A i \in 1..Len(res) :
                ~Closer(DistKey(chunks[j].embedding, q), DistKey(res[i].chunk.embedding, q))

\* A search cut at two returned a strictly closer chunk first, left a chunk
\* out, and the store holds the closest chunk after a farther one.
C17_Witness ==
  \E c \in CollIds, q \in QueryVecs :
    LET res == SearchSimilar(chunks, c, q, 2, "asc")
    IN /\ Len(res) = 2
       /\ Closer(DistKey(res[1].chunk.embedding, q), DistKey(res[2].chunk.embedding, q))
       /\ res[1].pos > res[2].pos
       /\ \E j \in 1..Len(chunks) :
            /\ chunks[j].collection_id = c
            /\ Closer(DistKey(res[2].chunk.embedding, q), DistKey(chunks[j].embedding, q))

\* Two stored rows are at equal distance from q.
C18_Tied(a, b, q) ==
  /\ ~Closer(DistKey(a.embedding, q), DistKey(b.embedding, q))
  /\ ~Closer(DistKey(b.embedding, q), DistKey(a.embedding, q))

\* C18: chunks of the queried collection at equal distance from the query are
\* ranked in insertion order, relative to each other and at the top_k cut.
C18_TiesInInsertionOrder ==
  \A c \in CollIds, q \in QueryVecs, k \in TopKs, tie \in TieOrders :
    LET res == SearchSimilar(chunks, c, q, k, tie)
        returned == { res[i].pos : i \in 1..Len(res) }
    IN /\ \A i \in 1..(Len(res) - 1) :
            C18_Tied(res[i].chunk, res[i + 1].chunk, q) => res[i].pos < res[i + 1].pos
       /\ \A j \in 1..Len(chunks) :
            (chunks[j].collection_id = c /\ j \notin returned) =>
              \A i \in 1..Len(res) : C18_Tied(chunks[j], res[i].chunk, q) => res[i].pos < j

\* C19: the query is embedded by the embedder ingestion used: for every
\* stored chunk, the query vector of its text equals its stored vector, and a
\* query for that text returns a chunk with that text first, at distance 0.
C19_SameEmbedder ==
  \A i \in 1..Len(chunks) :
    /\ QueryEmbed(chunks[i].text) = chunks[i].embedding
    /\ \A tie \in TieOrders :
         LET res == RetrievalQuery(chunks, chunks[i].collection_id, chunks[i].text, 1, tie)
         IN /\ Len(res) = 1
            /\ res[1].chunk.embedding = QueryEmbed(chunks[i].text)

\* C20: when retrieval yields no chunk for the collection, answer() returns
\* the fixed could-not-find answer with empty citations and empty context,
\* and the generator is never invoked.
C20_EmptyRetrievalShortCircuit ==
  (rag.pc \in {"retrieved", "answered"} /\ rag.results = <<>>) =>
    /\ rag.pc = "answered"
    /\ rag.answer = NoInfoAnswer
    /\ rag.citations = <<>>
    /\ rag.context = <<>>
    /\ rag.generate_calls = 0

\* answer() returned on a collection without chunks while another collection
\* holds some.
C20_Witness ==
  /\ rag.pc = "answered" /\ rag.results = <<>>
  /\ rag.collection_id \in collections
  /\ chunks # <<>>

RECURSIVE C22_Used(_, _)
C22_Used(context_chunks, k) ==
  IF k = 0 THEN 0
  ELSE C22_Used(context_chunks, k - 1) + Len(context_chunks[k]) + SeparatorAllowance

\* C22: the context part of the prompt stays within max_context_tokens * 4
\* characters; it holds the whole chunks, in retrieval order, that fit, and the
\* first chunk that does not fit follows them cut to the remaining budget with
\* an ellipsis when at least 100 characters remain (100 included), and is
\* dropped otherwise.
C22_ContextWithinBudget ==
  (rag.pc = "prompted" /\ rag.context # <<>>) =>
    LET available == rag.max_context_tokens * CharsPerToken
        n == Len(rag.context)
        k == CHOOSE j \in 0..n :
               /\ C22_Used(rag.context, j) <= available
               /\ j < n => C22_Used(rag.context, j + 1) > available
        remaining == available - C22_Used(rag.context, k) - SeparatorAllowance
        text == rag.prompt.context_text
    IN /\ Len(text) <= available
       /\ IF Len(Join(rag.context)) <= available THEN text = Join(rag.context)
          ELSE IF remaining >= 100
          THEN text = Join(Append(SubSeq(rag.context, 1, k),
                                  SubSeq(rag.context[k + 1], 1, remaining) \o Ellipsis))
          ELSE text = Join(SubSeq(rag.context, 1, k))

\* C23: for every valid (chunk_size, overlap) and every text, either chunker
\* returns at least one entry, the entries numbered 0, 1, 2, ... without a
\* gap; a text that is empty or only whitespace gives the single entry
\* (0, ""), any other text gives no entry with an empty chunk_text.
C23_ChunkerTotal ==
  chunker.pc = "chunked" =>
    /\ chunker.out # <<>>
    /\ \A i \in 1..Len(chunker.out) : chunker.out[i].index = i - 1
    /\ IF Strip(chunker.text) = <<>>
       THEN chunker.out = << [index |-> 0, text |-> <<>>] >>
       ELSE \A i \in 1..Len(chunker.out) : chunker.out[i].text # <<>>

\* A fixed-window chunking that dropped a blank window between two chunks.
C23_Witness ==
  /\ chunker.pc = "chunked"
  /\ chunker.kind = "simple"
  /\ chunker.chunk_size = 1
  /\ Len(chunker.out) = 2
  /\ Len(Strip(chunker.text)) = 4

\* C24: every chunk the sentence-aware chunker returns has at most chunk_size
\* characters, a chunk that starts with sentences carried over included.
C24_ChunkWithinSize ==
  (chunker.pc = "chunked" /\ chunker.kind = "sentence") =>
    \A i \in 1..Len(chunker.out) : Len(chunker.out[i].text) <= chunker.chunk_size

\* C29: a LocalLLM loads nothing when it is built, and across any sequence or
\* interleaving of generate calls its tokenizer and its model are each loaded
\* at most once.
C29_LoadsAtMostOnce ==
  /\ llm.calls = 0 => (~llm.loaded /\ llm.tokenizer_loads = 0 /\ llm.model_loads = 0)
  /\ llm.tokenizer_loads <= 1
  /\ llm.model_loads <= 1

C26_StageRank(stage) ==
  CASE stage = "document_created" -> 1
    [] stage = "extracting"       -> 2
    [] stage = "chunked"          -> 3
    [] stage = "embedded"         -> 4
    [] stage = "persisted"        -> 5
    [] OTHER                      -> 0

\* C26: the stages written to one job's progress follow the order
\* document_created, extracting, chunked, embedded, persisted, none written
\* after a later one; and when persisted is written, the rows the job built
\* for its document are already committed in the chunks table.
C26_StageOrder ==
  [][ \A j \in DOMAIN jobs :
        /\ C26_StageRank(jobs[j].progress.stage) <= C26_StageRank(jobs'[j].progress.stage)
        /\ (jobs[j].progress.stage # "persisted" /\ jobs'[j].progress.stage = "persisted") =>
             DocChunks(proc[j].doc) = Rows(proc[j], documents[proc[j].doc].collection_id) ]_vars

\* A two-page PDF job that went through every stage and stored rows.
C26_Witness ==
  \E j \in DOMAIN jobs :
    /\ jobs[j].progress.stage = "persisted"
    /\ proc[j].handler = "pdf" /\ Len(proc[j].units) = 2
    /\ DocChunks(proc[j].doc) # <<>>

\* C27: a job whose status is COMPLETED or PARTIAL has progress.stage
\* "persisted", also when no chunk was persisted for it.
C27_PersistedAtSuccess ==
  \A j \in DOMAIN jobs :
    jobs[j].status \in {"COMPLETED", "PARTIAL"} => jobs[j].progress.stage = "persisted"

\* A COMPLETED job without a stored chunk.
C27_Witness ==
  \E j \in DOMAIN jobs :
    /\ jobs[j].status = "COMPLETED"
    /\ jobs[j].progress.stage = "persisted"
    /\ proc[j].doc # NoDoc /\ DocChunks(proc[j].doc) = <<>>

\* C28: a job row is born PENDING, goes to RUNNING, may be rewritten as
\* RUNNING, and receives one terminal status, after which the row is not
\* written again: no reader sees a non-terminal status after a terminal one,
\* nor two terminal statuses.
C28_StatusSequence ==
  [][ \A j \in DOMAIN jobs' :
        IF j \notin DOMAIN jobs THEN jobs'[j].status = "PENDING"
        ELSE /\ jobs[j].status = "PENDING" => jobs'[j].status \in {"PENDING", "RUNNING"}
             /\ jobs[j].status = "RUNNING" => jobs'[j].status \in {"RUNNING"} \cup Terminal
             /\ jobs[j].status \in Terminal => jobs'[j] = jobs[j]
             /\ jobs[j].status \notin {"PENDING", "RUNNING"} \cup Terminal => FALSE ]_vars

\* A job that ended PARTIAL after RUNNING was written several times.
C28_Witness ==
  \E j \in DOMAIN jobs : jobs[j].status = "PARTIAL" /\ jobs[j].calls >= 5

\* C30: a stored chunk carries the collection of the document it names, which
\* is the collection of the request that was ingested; a query on one
\* collection returns no chunk of a document of another collection.
C30_ChunkInDocumentCollection ==
  /\ \A i \in 1..Len(chunks) :
       /\ chunks[i].document_id \in DOMAIN documents
       /\ chunks[i].collection_id = documents[chunks[i].document_id].collection_id
       /\ chunks[i].collection_id = proc[chunks[i].document_id].payload.collection_id
  /\ \A c \in CollIds, query \in Questions, tie \in TieOrders :
       LET res == RetrievalQuery(chunks, c, query, 2, tie)
       IN \A i \in 1..Len(res) :
            /\ documents[res[i].chunk.document_id].collection_id = c
            /\ proc[res[i].chunk.document_id].payload.collection_id = c

\* Documents of both collections hold chunks and a query on "B" returns some.
C30_Witness ==
  /\ \E i \in 1..Len(chunks) : documents[chunks[i].document_id].collection_id = "A"
  /\ \E i \in 1..Len(chunks) : documents[chunks[i].document_id].collection_id = "B"
  /\ \E query \in Questions : RetrievalQuery(chunks, "B", query, 2, "asc") # <<>>

====
